---- MODULE Spec2Model ----
(***************************************************************************)
(* TabViewPagerPan (src/src/TabViewPagerPan.js): the pan-gesture pager of  *)
(* a tab view.  The component's instance fields, its props, the shared     *)
(* Animated offset and the requestAnimationFrame queue are the state; each *)
(* gesture callback, lifecycle hook and deferred task is one action.       *)
(*                                                                         *)
(* Numbers.  Positions (offset, _lastValue, _lastOffset, nextPosition,     *)
(* nextIndex) are fixed-point integers in units of 1/Scale of a panel, so  *)
(* panel index i is Fx(i) = i * Scale.  Velocities are integers in units   *)
(* of 1/10^8.  The input sets are chosen so that every quotient the code   *)
(* computes on finite operands is exact in these units.  A JavaScript      *)
(* number that may be non-finite is a record: Num(n), NaN, or Inf(sign).   *)
(***************************************************************************)
EXTENDS Integers, Sequences, FiniteSets, TLC

\* ---------------------------------------------------------------- bounds
MaxRoutes == 3          \* panel counts 1..MaxRoutes
MaxPanels == 2          \* panel counts 1..MaxPanels while the props change
MaxRaf == 2             \* pending requestAnimationFrame callbacks
MaxHalt == 1            \* stopAnimation callbacks not yet delivered

\* ------------------------------------------------------------- constants
Scale     == 2          \* position units per panel
DEAD_ZONE == 12
DefaultSwipeDistanceThreshold == 120
\* velocities are integers in units of 1/100000000, so 0.25 is 25000000
DefaultSwipeVelocityThreshold == 25000000
AndroidVelocityDivisor == 1000000

\* ----------------------------------------------------------- input sets
Widths == {0, 100}
\* velocities -0.3, 0, 0.1, 0.3
VXs == {-30000000, 0, 10000000, 30000000}
\* the samples offered to _canMoveScreen, to _respondToGesture (dx a
\* multiple of 50, so that dx / width is exact) and to _finishGesture,
\* which reads dx and vx only
ClaimSamples == [dx : {-50, 50}, dy : {0}, vx : {0, 30000000}, vy : {0}]
MoveSamples ==
  [dx : {-150, -50, 0, 50, 150}, dy : {0}, vx : {0, 30000000}, vy : {0}]
ReleaseSamples == [dx : {-130, -50, 0, 130}, dy : {0}, vx : VXs, vy : {0}]
\* the moves and releases offered while the props change as well
FewMoveSamples == [dx : {-50, 50}, dy : {0}, vx : {0, 30000000}, vy : {0}]
FewReleaseSamples == [dx : {-130, -50, 130}, dy : {0}, vx : {0}, vy : {0}]
\* the samples offered to the classifier when it is checked alone
ClassifierDXs == {-130, -50, -13, -12, -11, 0, 11, 12, 13, 100, 130}
ClassifierDYs == {0, 4, 150}
ClassifierVYs == {0, 5000000}
ClassifierSamples ==
  [dx : ClassifierDXs, dy : ClassifierDYs, vx : VXs, vy : ClassifierVYs]
Platforms == {"ios", "android"}
\* props.configureTransition, a function of the two positions: it always
\* returns a specification, always null, or null when they are equal
Configurators == {"spring", "null", "nullIfSame"}

\* ------------------------------------------------------ JavaScript values
Null == << >>
Some(x) == << x >>
Num(n) == [k |-> "num", v |-> n]
NaN == [k |-> "nan", v |-> 0]
Inf(sign) == [k |-> "inf", v |-> sign]
Fx(i) == i * Scale
Abs(n) == IF n < 0 THEN -n ELSE n
Sign(n) == IF n < 0 THEN -1 ELSE IF n > 0 THEN 1 ELSE 0

\* a / b on finite numbers, the quotient in position units
JsDiv(a, b) ==
  IF b = 0
    THEN IF a = 0 THEN NaN ELSE Inf(Sign(a))
    ELSE Num((a * Scale) \div b)

\* a - y, a finite position, y any number
JsSub(a, y) ==
  CASE y.k = "nan" -> NaN
    [] y.k = "inf" -> Inf(-y.v)
    [] OTHER -> Num(a - y.v)

VARIABLES
  index,            \* props.navigationState.index
  routes,           \* props.navigationState.routes.length (= child count)
  width,            \* props.layout.width
  swipeEnabled,     \* props.swipeEnabled
  platform,         \* Platform.OS
  configure,        \* props.configureTransition
  offset,           \* props.offset: the value of the shared Animated.Value
  anim,             \* the animation running on offset: Null or Some(toValue)
  lastOffset,       \* this._lastOffset
  lastValue,        \* this._lastValue
  isMoving,         \* this._isMoving
  startDirection,   \* this._startDirection
  phase,            \* responder negotiation: "idle", "claimed", "granted"
  raf,              \* queue of requestAnimationFrame callbacks
  halt,             \* values stopAnimation has yet to hand to its callback
  leftOnly,         \* history: every move sample of this gesture had dx < 0
  ev                \* history: the last callback, its input and its result

vars == << index, routes, width, swipeEnabled, platform, configure, offset,
           anim, lastOffset, lastValue, isMoving, startDirection, phase,
           raf, halt, leftOnly, ev >>

props == << index, routes, width, swipeEnabled, platform, configure >>

ZeroSample == [dx |-> 0, dy |-> 0, vx |-> 0, vy |-> 0]

\* the record of a callback: op its name, s its gesture sample, moving the
\* _isMoving it found, ret what it returned (_canMoveScreen) or whether it
\* wrote offset (_respondToGesture), jump the argument it gave jumpToIndex,
\* from and to the arguments of _transitionTo, idx the index it found,
\* base the _lastValue (_finishGesture) or the offset (_transitionTo) it
\* found, left the leftOnly it found
Event(op, s, moving, ret, jump, from, to, idx, base, left) ==
  [op |-> op, s |-> s, moving |-> moving, ret |-> ret, jump |-> jump,
   from |-> from, to |-> to, idx |-> idx, base |-> base, left |-> left]

Plain(op) == Event(op, ZeroSample, Null, FALSE, Null, 0, 0, 0, Null, TRUE)

\* ------------------------------------------------------------ pure helpers
\* mutant: the upper end of the range is not checked
IsIndexInRangeNoUpper(v, n) ==
  v.k = "num" /\ v.v >= 0

\* _isIndexInRange, on a number in position units
IsIndexInRange(v, n) ==
  v.k = "num" /\ v.v >= 0 /\ v.v <= Fx(n - 1)

\* mutant: either test suffices
IsMovingHorzontallyEither(s) ==
  Abs(s.dx) > Abs(s.dy * 3) \/ Abs(s.vx) > Abs(s.vy * 3)

\* _isMovingHorzontally
IsMovingHorzontally(s) ==
  Abs(s.dx) > Abs(s.dy * 3) /\ Abs(s.vx) > Abs(s.vy * 3)

\* mutant: the start direction is not consulted
IsReverseDirectionOneSided(s, dir) ==
  s.vx < 0

\* _isReverseDirection
IsReverseDirection(s, dir) ==
  IF dir > 0 THEN s.vx < 0 ELSE s.vx > 0

\* mutant: the threshold is normalised on every platform
VelocityThresholdAlwaysDivided(os) ==
  DefaultSwipeVelocityThreshold \div AndroidVelocityDivisor

\* the velocity threshold _getNextIndex compares against
VelocityThreshold(os) ==
  IF os = "android"
    THEN DefaultSwipeVelocityThreshold \div AndroidVelocityDivisor
    ELSE DefaultSwipeVelocityThreshold

\* mutant: the step has the sign of dx
GetNextIndexFlipped(s, idx, n, os) ==
  IF Abs(s.dx) > DefaultSwipeDistanceThreshold
       \/ Abs(s.vx) > VelocityThreshold(os)
    THEN LET nextIndex == JsSub(Fx(idx), JsDiv(-s.dx, Abs(s.dx)))
         IN  IF IsIndexInRange(nextIndex, n)
               THEN nextIndex.v \div Scale
               ELSE idx
    ELSE idx

\* mutant: the next index is not checked against the range
GetNextIndexUnclamped(s, idx, n, os) ==
  IF Abs(s.dx) > DefaultSwipeDistanceThreshold
       \/ Abs(s.vx) > VelocityThreshold(os)
    THEN LET nextIndex == JsSub(Fx(idx), JsDiv(s.dx, Abs(s.dx)))
         IN  IF nextIndex.k = "num"
               THEN nextIndex.v \div Scale
               ELSE idx
    ELSE idx

\* mutant: the next index is checked against the last panel only
GetNextIndexNoLower(s, idx, n, os) ==
  IF Abs(s.dx) > DefaultSwipeDistanceThreshold
       \/ Abs(s.vx) > VelocityThreshold(os)
    THEN LET nextIndex == JsSub(Fx(idx), JsDiv(s.dx, Abs(s.dx)))
         IN  IF nextIndex.k = "num" /\ nextIndex.v <= Fx(n - 1)
               THEN nextIndex.v \div Scale
               ELSE idx
    ELSE idx

\* mutant: the step is two panels
GetNextIndexTwoPanels(s, idx, n, os) ==
  IF Abs(s.dx) > DefaultSwipeDistanceThreshold
       \/ Abs(s.vx) > VelocityThreshold(os)
    THEN LET nextIndex == JsSub(Fx(idx), JsDiv(2 * s.dx, Abs(s.dx)))
         IN  IF IsIndexInRange(nextIndex, n)
               THEN nextIndex.v \div Scale
               ELSE idx
    ELSE idx

\* _getNextIndex: the index handed to jumpToIndex
GetNextIndex(s, idx, n, os) ==
  IF Abs(s.dx) > DefaultSwipeDistanceThreshold
       \/ Abs(s.vx) > VelocityThreshold(os)
    THEN LET nextIndex == JsSub(Fx(idx), JsDiv(s.dx, Abs(s.dx)))
         IN  IF IsIndexInRange(nextIndex, n)
               THEN nextIndex.v \div Scale
               ELSE idx
    ELSE idx

\* mutant: swipeEnabled is not consulted
CanMoveAlwaysEnabled(s, enabled, idx, n) ==
  IsMovingHorzontally(s)
    /\ (   (s.dx >= DEAD_ZONE /\ idx >= 0)
        \/ (s.dx <= -DEAD_ZONE /\ idx <= n - 1))

\* mutant: there is no dead zone
CanMoveNoDeadZone(s, enabled, idx, n) ==
  IF enabled = FALSE
    THEN FALSE
    ELSE IsMovingHorzontally(s)
           /\ (   (s.dx > 0 /\ idx >= 0)
               \/ (s.dx < 0 /\ idx <= n - 1))

\* the value _canMoveScreen returns
CanMove(s, enabled, idx, n) ==
  IF enabled = FALSE
    THEN FALSE
    ELSE IsMovingHorzontally(s)
           /\ (   (s.dx >= DEAD_ZONE /\ idx >= 0)
               \/ (s.dx <= -DEAD_ZONE /\ idx <= n - 1))

\* mutant: the baseline is always navigationState.index
CurrentPositionIndex(lv, idx) == Fx(idx)

\* mutant: the displacement is added
NextPositionAdded(lv, idx, s, w) ==
  JsSub(IF lv # Null THEN lv[1] ELSE Fx(idx), JsDiv(-s.dx, w))

\* currentPosition and nextPosition of _respondToGesture
CurrentPosition(lv, idx) == IF lv # Null THEN lv[1] ELSE Fx(idx)
NextPosition(lv, idx, s, w) == JsSub(CurrentPosition(lv, idx), JsDiv(s.dx, w))

\* whether props.configureTransition yields a transition specification
HasTransitionSpec(cfg, from, to) ==
  CASE cfg = "spring" -> TRUE
    [] cfg = "nullIfSame" -> from # to
    [] OTHER -> FALSE

\* mutant: jumpToIndex is called whatever the mirrored offset is
FinishRequestAlways(s, moving, dir, lastOff, idx, n, os) ==
  IF moving = Some(TRUE) /\ ~IsReverseDirection(s, dir)
    THEN Some(GetNextIndex(s, idx, n, os))
    ELSE Some(idx)

\* mutant: a reversed or unclassified gesture requests nothing
FinishRequestNoSnapBack(s, moving, dir, lastOff, idx, n, os) ==
  IF lastOff # Fx(idx) /\ moving = Some(TRUE) /\ ~IsReverseDirection(s, dir)
    THEN Some(GetNextIndex(s, idx, n, os))
    ELSE Null

\* what _finishGesture hands to jumpToIndex: Null when it does not call it
FinishRequest(s, moving, dir, lastOff, idx, n, os) ==
  IF lastOff # Fx(idx)
    THEN IF moving = Some(TRUE) /\ ~IsReverseDirection(s, dir)
           THEN Some(GetNextIndex(s, idx, n, os))
           ELSE Some(idx)
    ELSE Null

\* ------------------------------------------------------------------- Init
Init ==
  /\ routes \in 1..MaxRoutes
  /\ index \in 0..(routes - 1)
  /\ width \in Widths
  /\ swipeEnabled \in BOOLEAN
  /\ platform \in Platforms
  /\ configure \in Configurators
  /\ offset = Fx(index)
  /\ anim = Null
  /\ lastOffset = Fx(index)
  /\ lastValue = Null
  /\ isMoving = Null
  /\ startDirection = 0
  /\ phase = "idle"
  /\ raf = << >>
  /\ halt = << >>
  /\ leftOnly = TRUE
  /\ ev = Plain("mount")

\* ------------------------------------------------ the shared offset value
\* offset.setValue(v): halts the running animation, assigns, and notifies
\* the listener _trackOffset
SetValue(v) ==
  /\ offset' = v
  /\ anim' = Null
  /\ lastOffset' = v

\* timing(offset, {toValue}).start(): supersedes the running animation
StartAnimation(toValue) ==
  /\ anim' = Some(toValue)
  /\ UNCHANGED << offset, lastOffset >>

\* ------------------------------------------------------- transition driver
\* mutant: the target is taken relative to fromValue
TransitionToRelative(from, to) ==
  IF HasTransitionSpec(configure, from, to)
    THEN StartAnimation(Fx(to - from))
    ELSE SetValue(Fx(to - from))

\* _transitionTo(fromValue, toValue), on panel indices
TransitionTo(from, to) ==
  IF HasTransitionSpec(configure, from, to)
    THEN StartAnimation(Fx(to))
    ELSE SetValue(Fx(to))

\* the callbacks componentWillReceiveProps and componentDidUpdate hand to
\* requestAnimationFrame.  "wrp" captured nextProps' index and reads
\* this.props when it runs; "du" captured prevProps' index and reads
\* this.props when it runs.
WrpTask(nextIndex) == [kind |-> "wrp", idx |-> nextIndex]
DuTask(prevIndex) == [kind |-> "du", idx |-> prevIndex]

\* one update of the component's props: componentWillReceiveProps, then
\* componentDidUpdate.  relaid: the layout or the child count differs.
Scheduled(relaid, prevIndex, nextIndex) ==
  (IF relaid THEN << WrpTask(nextIndex) >> ELSE << >>)
    \o << DuTask(prevIndex) >>

ComponentUpdate(relaid, prevIndex, nextIndex) ==
  /\ Len(raf) + Len(Scheduled(relaid, prevIndex, nextIndex)) <= MaxRaf
  /\ raf' = raf \o Scheduled(relaid, prevIndex, nextIndex)

\* mutant: componentDidUpdate's callback passes its arguments the other
\* way round, _transitionTo(this.props index, prevProps index)
RunFrameSwapped ==
  /\ raf # << >>
  /\ LET t == Head(raf)
         from == index
         to == t.idx
     IN  /\ TransitionTo(from, to)
         /\ ev' = Event("settle", ZeroSample, Null, FALSE, Null, from, to,
                        index, Some(offset), TRUE)
  /\ raf' = Tail(raf)
  /\ UNCHANGED << props, lastValue, isMoving, startDirection, phase,
                  halt, leftOnly >>

\* a requestAnimationFrame callback runs
RunFrame ==
  /\ raf # << >>
  /\ LET t == Head(raf)
         from == IF t.kind = "wrp" THEN index ELSE t.idx
         to == IF t.kind = "wrp" THEN t.idx ELSE index
     IN  /\ TransitionTo(from, to)
         /\ ev' = Event("settle", ZeroSample, Null, FALSE, Null, from, to,
                        index, Some(offset), TRUE)
  /\ raf' = Tail(raf)
  /\ UNCHANGED << props, lastValue, isMoving, startDirection, phase,
                  halt, leftOnly >>

\* the running animation advances one frame, half way to its target
AnimationFrame ==
  /\ anim # Null
  /\ Abs(anim[1] - offset) >= Scale
  /\ offset' = (offset + anim[1]) \div 2
  /\ lastOffset' = offset'
  /\ ev' = Plain("frame")
  /\ UNCHANGED << props, anim, lastValue, isMoving, startDirection, phase,
                  raf, halt, leftOnly >>

\* the running animation reaches its target and ends
AnimationEnd ==
  /\ anim # Null
  /\ offset' = anim[1]
  /\ lastOffset' = offset'
  /\ anim' = Null
  /\ ev' = Plain("end")
  /\ UNCHANGED << props, lastValue, isMoving, startDirection, phase, raf,
                  halt, leftOnly >>

\* ---------------------------------------------------- external controller
\* props.jumpToIndex(i): the controller makes i the index and renders the
\* component again with it, before the next event is delivered
JumpToIndex(i) ==
  /\ index' = i
  /\ ComponentUpdate(FALSE, index, i)

\* the controller changes the index programmatically
IndexChange(j) ==
  /\ j # index
  /\ index' = j
  /\ ComponentUpdate(FALSE, index, j)
  /\ ev' = Plain("props")
  /\ UNCHANGED << routes, width, swipeEnabled, platform, configure, offset,
                  anim, lastOffset, lastValue, isMoving, startDirection,
                  phase, halt, leftOnly >>

\* the layout is measured again
LayoutChange(w) ==
  /\ w # width
  /\ width' = w
  /\ ComponentUpdate(TRUE, index, index)
  /\ ev' = Plain("props")
  /\ UNCHANGED << index, routes, swipeEnabled, platform, configure, offset,
                  anim, lastOffset, lastValue, isMoving, startDirection,
                  phase, halt, leftOnly >>

\* a panel is added or removed
RoutesChange(n) ==
  /\ n # routes
  /\ routes' = n
  /\ index' = IF index <= n - 1 THEN index ELSE n - 1
  /\ ComponentUpdate(TRUE, index, index')
  /\ ev' = Plain("props")
  /\ UNCHANGED << width, swipeEnabled, platform, configure, offset, anim,
                  lastOffset, lastValue, isMoving, startDirection, phase,
                  halt, leftOnly >>

\* ------------------------------------------------------ gesture callbacks
\* onMoveShouldSetPanResponder(Capture): _canMoveScreen
CanMoveScreen(s) ==
  /\ phase \in {"idle", "claimed"}
  /\ LET canMove == CanMove(s, swipeEnabled, index, routes)
     IN  /\ startDirection' = IF canMove THEN s.dx ELSE startDirection
         /\ phase' = IF canMove THEN "claimed" ELSE "idle"
         /\ ev' = Event("claim", s, Null, canMove, Null, 0, 0, index, Null,
                        TRUE)
  /\ UNCHANGED << props, offset, anim, lastOffset, lastValue, isMoving,
                  raf, halt, leftOnly >>

\* onPanResponderGrant: _startGesture.  stopAnimation halts the running
\* animation and hands the value of offset to the callback
StartGesture ==
  /\ phase = "claimed"
  /\ phase' = "granted"
  /\ anim' = Null
  /\ lastValue' = Some(offset)
  /\ leftOnly' = TRUE
  /\ ev' = Plain("grant")
  /\ UNCHANGED << props, offset, lastOffset, isMoving, startDirection,
                  raf, halt >>

\* onPanResponderGrant when stopAnimation hands the value over later, as it
\* does for a value driven natively: the animation is halted at once and
\* _lastValue keeps what it held
StartGestureDeferred ==
  /\ phase = "claimed"
  /\ Len(halt) < MaxHalt
  /\ phase' = "granted"
  /\ anim' = Null
  /\ halt' = Append(halt, offset)
  /\ leftOnly' = TRUE
  /\ ev' = Plain("grant")
  /\ UNCHANGED << props, offset, lastOffset, lastValue, isMoving,
                  startDirection, raf >>

\* the callback given to stopAnimation runs: value => this._lastValue = value
HaltCallback ==
  /\ halt # << >>
  /\ lastValue' = Some(Head(halt))
  /\ halt' = Tail(halt)
  /\ ev' = Plain("halt")
  /\ UNCHANGED << props, offset, anim, lastOffset, isMoving, startDirection,
                  phase, raf, leftOnly >>

\* mutant: every move sample classifies the gesture anew
RespondToGestureReclassify(s) ==
  /\ phase = "granted"
  /\ LET nextPosition == NextPosition(lastValue, index, s, width)
         moving == Some(IsMovingHorzontally(s))
         write == moving[1] /\ IsIndexInRange(nextPosition, routes)
     IN  /\ isMoving' = moving
         /\ IF write
              THEN SetValue(nextPosition.v)
              ELSE UNCHANGED << offset, anim, lastOffset >>
         /\ ev' = Event("move", s, isMoving, write, Null, 0, 0, index,
                        Null, TRUE)
  /\ leftOnly' = (leftOnly /\ s.dx < 0)
  /\ UNCHANGED << props, lastValue, startDirection, phase, raf, halt >>

\* onPanResponderMove: _respondToGesture
RespondToGesture(s) ==
  /\ phase = "granted"
  /\ LET nextPosition == NextPosition(lastValue, index, s, width)
         moving == IF isMoving = Null
                     THEN Some(IsMovingHorzontally(s))
                     ELSE isMoving
         write == moving[1] /\ IsIndexInRange(nextPosition, routes)
     IN  /\ isMoving' = moving
         /\ IF write
              THEN SetValue(nextPosition.v)
              ELSE UNCHANGED << offset, anim, lastOffset >>
         /\ ev' = Event("move", s, isMoving, write, Null, 0, 0, index,
                        Null, TRUE)
  /\ leftOnly' = (leftOnly /\ s.dx < 0)
  /\ UNCHANGED << props, lastValue, startDirection, phase, raf, halt >>

\* mutant: the session is cleared only on the branch that calls jumpToIndex
FinishGestureBranchReset(s) ==
  /\ phase = "granted"
  /\ LET jump == FinishRequest(s, isMoving, startDirection, lastOffset,
                               index, routes, platform)
     IN  /\ IF jump # Null
              THEN JumpToIndex(jump[1])
              ELSE UNCHANGED << index, raf >>
         /\ ev' = Event("finish", s, isMoving, jump # Null, jump, 0, 0,
                        index, lastValue, leftOnly)
         /\ lastValue' = IF jump # Null THEN Null ELSE lastValue
         /\ isMoving' = IF jump # Null THEN Null ELSE isMoving
  /\ phase' = "idle"
  /\ leftOnly' = TRUE
  /\ UNCHANGED << routes, width, swipeEnabled, platform, configure, offset,
                  anim, lastOffset, startDirection, halt >>

\* onPanResponderRelease / onPanResponderTerminate: _finishGesture
FinishGesture(s) ==
  /\ phase = "granted"
  /\ LET jump == FinishRequest(s, isMoving, startDirection, lastOffset,
                               index, routes, platform)
     IN  /\ IF jump # Null
              THEN JumpToIndex(jump[1])
              ELSE UNCHANGED << index, raf >>
         /\ ev' = Event("finish", s, isMoving, jump # Null, jump, 0, 0,
                        index, lastValue, leftOnly)
  /\ lastValue' = Null
  /\ isMoving' = Null
  /\ phase' = "idle"
  /\ leftOnly' = TRUE
  /\ UNCHANGED << routes, width, swipeEnabled, platform, configure, offset,
                  anim, lastOffset, startDirection, halt >>

\* ------------------------------------------------------------------- Next
\* the whole component: gestures, deferred settles, animation frames and
\* changes of the props
Next ==
  \/ \E s \in ClaimSamples : CanMoveScreen(s)
  \/ StartGesture
  \/ \E s \in FewMoveSamples : RespondToGesture(s)
  \/ \E s \in FewReleaseSamples : FinishGesture(s)
  \/ RunFrame
  \/ AnimationFrame
  \/ AnimationEnd
  \/ \E j \in 0..(routes - 1) : IndexChange(j)
  \/ \E w \in Widths : LayoutChange(w)
  \/ \E n \in 1..MaxPanels : RoutesChange(n)

\* the component mounted on iOS with at most MaxPanels panels
InitComponent == Init /\ platform = "ios" /\ routes <= MaxPanels

Spec == InitComponent /\ [][Next]_vars

\* gestures on a component whose props change only through jumpToIndex
\* and whose transitions are animated, with every release sample and on
\* both platforms
NextGesture ==
  \/ \E s \in ClaimSamples : CanMoveScreen(s)
  \/ StartGesture
  \/ \E s \in MoveSamples : RespondToGesture(s)
  \/ \E s \in ReleaseSamples : FinishGesture(s)
  \/ RunFrame
  \/ AnimationFrame
  \/ AnimationEnd

\* the component mounted with animated transitions
InitGesture == Init /\ configure = "spring"

SpecGesture == InitGesture /\ [][NextGesture]_vars

\* the classifier alone, on every sample, index and panel count
NextClassifier == \E s \in ClassifierSamples : CanMoveScreen(s)

\* the component mounted on iOS on a measured layout
InitClassifier ==
  Init /\ width = 100 /\ platform = "ios" /\ configure = "spring"

SpecClassifier == InitClassifier /\ [][NextClassifier]_vars

\* gestures whose grant receives the halted value at once or later
NextHalt ==
  \/ \E s \in ClaimSamples : CanMoveScreen(s)
  \/ StartGesture
  \/ StartGestureDeferred
  \/ HaltCallback
  \/ \E s \in FewMoveSamples : RespondToGesture(s)
  \/ \E s \in FewReleaseSamples : FinishGesture(s)
  \/ RunFrame
  \/ AnimationFrame
  \/ AnimationEnd

\* the component mounted on iOS on a measured layout with at most
\* MaxPanels panels, swiping enabled
InitHalt ==
  Init /\ width = 100 /\ platform = "ios" /\ configure = "spring"
       /\ swipeEnabled /\ routes <= MaxPanels

SpecHalt == InitHalt /\ [][NextHalt]_vars

\* changes of the props alone, no gesture: every deferred callback runs
\* (requestAnimationFrame calls back on the next frame) and every animation
\* that is not superseded ends
NextSettle ==
  \/ \E j \in 0..(routes - 1) : IndexChange(j)
  \/ \E w \in Widths : LayoutChange(w)
  \/ \E n \in 1..MaxPanels : RoutesChange(n)
  \/ RunFrame
  \/ AnimationFrame
  \/ AnimationEnd

\* the component mounted on iOS with at most MaxPanels panels
InitSettle ==
  Init /\ platform = "ios" /\ swipeEnabled /\ routes <= MaxPanels

SpecSettle ==
  InitSettle /\ [][NextSettle]_vars
    /\ WF_vars(RunFrame) /\ WF_vars(AnimationEnd)

\* ----------------------------------------------------------------- claims
\* the release did not reverse the start direction
NotReversed ==
  \/ startDirection > 0 /\ ev.s.vx >= 0
  \/ startDirection <= 0 /\ ev.s.vx <= 0

\* the index one panel against the sign of the release's dx
Target == ev.idx - Sign(ev.s.dx)

\* C1: every value _respondToGesture writes to offset lies within
\* [0, routes.length - 1]
C1_RangeInvariant ==
  (ev.op = "move" /\ ev.ret) => (offset >= 0 /\ offset <= Scale * (routes - 1))

\* a drag from a baseline between two panels writes the last panel's position
C1_Witness ==
  /\ ev.op = "move" /\ ev.ret
  /\ routes = 3 /\ offset = Scale * 2
  /\ lastValue # Null /\ lastValue[1] = Scale + 1

\* C2, as stated, on a measured layout: a horizontal gesture granted at the
\* settled index i and released with |dx| above the distance threshold, not
\* reversed, requests i - sign(dx) whenever that is a panel
C2_Original ==
  (/\ ev.op = "finish" /\ ev.moving = Some(TRUE)
   /\ ev.base = Some(Fx(ev.idx)) /\ width > 0
   /\ Abs(ev.s.dx) > DefaultSwipeDistanceThreshold
   /\ NotReversed
   /\ Target >= 0 /\ Target <= routes - 1)
    => ev.jump = Some(Target)

\* C2, amended: the same, provided the mirrored offset differs from i at
\* the release
C2_ThresholdCommit ==
  (/\ ev.op = "finish" /\ ev.moving = Some(TRUE)
   /\ ev.base = Some(Fx(ev.idx))
   /\ lastOffset # Fx(ev.idx)
   /\ Abs(ev.s.dx) > DefaultSwipeDistanceThreshold
   /\ NotReversed
   /\ Target >= 0 /\ Target <= routes - 1)
    => (ev.jump = Some(Target) /\ index = Target)

\* dx = -130, vx = 0, index 0 of 3 panels: index 1 is requested
C2_Witness ==
  /\ ev.op = "finish" /\ ev.moving = Some(TRUE)
  /\ ev.base = Some(0) /\ ev.idx = 0 /\ routes = 3
  /\ ev.s.dx = -130 /\ ev.s.vx = 0
  /\ ev.jump = Some(1) /\ index = 1

\* a leftward swipe at the last panel: claimed leftward, every move sample
\* with dx < 0, released with dx beyond the distance threshold and |vx|
\* beyond the velocity threshold
LeftwardAtLastPanel ==
  /\ ev.op = "finish" /\ ev.idx = routes - 1
  /\ startDirection < 0 /\ ev.moving = Some(TRUE) /\ ev.left
  /\ ev.s.dx < -DefaultSwipeDistanceThreshold
  /\ Abs(ev.s.vx) > DefaultSwipeVelocityThreshold

\* C3, as stated: a leftward swipe at the last panel requests the last panel
C3_Original ==
  LeftwardAtLastPanel => ev.jump = Some(routes - 1)

\* C3, amended: it requests the last panel when the mirrored offset differs
\* from the index, and nothing otherwise; the index stays the last panel's
C3_EdgeClamp ==
  LeftwardAtLastPanel =>
    /\ ev.jump = IF lastOffset = Fx(ev.idx) THEN Null ELSE Some(routes - 1)
    /\ index = routes - 1

\* the swipe starts while the offset is short of the last panel
C3_Witness ==
  /\ LeftwardAtLastPanel
  /\ routes >= 2 /\ ev.s.vx < 0
  /\ ev.jump = Some(routes - 1)

\* C4, as stated: a gesture claimed leftward and ended with vx > 0 requests
\* the committed index
C4_Original ==
  (ev.op = "finish" /\ startDirection < 0 /\ ev.s.vx > 0)
    => ev.jump = Some(ev.idx)

\* C4, amended: it requests the committed index when the mirrored offset
\* differs from it, and nothing otherwise
C4_ReversalOverrides ==
  (ev.op = "finish" /\ startDirection < 0 /\ ev.s.vx > 0)
    => /\ ev.jump = IF lastOffset = Fx(ev.idx) THEN Null ELSE Some(ev.idx)
       /\ index = ev.idx

\* the reversal overrides a distance that would have advanced the index
C4_Witness ==
  /\ ev.op = "finish" /\ startDirection < 0 /\ ev.s.vx > 0
  /\ ev.moving = Some(TRUE)
  /\ ev.s.dx < -DefaultSwipeDistanceThreshold
  /\ ev.idx + 1 <= routes - 1
  /\ ev.jump = Some(ev.idx)

\* C5, as stated, where the release requests an index: a horizontal gesture
\* released with |dx| and |vx| not above the configured thresholds requests
\* the committed index, on either platform
C5_Original ==
  (/\ ev.op = "finish" /\ ev.moving = Some(TRUE)
   /\ lastOffset # Fx(ev.idx)
   /\ Abs(ev.s.dx) <= DefaultSwipeDistanceThreshold
   /\ Abs(ev.s.vx) <= DefaultSwipeVelocityThreshold)
    => ev.jump = Some(ev.idx)

\* C5, amended: with |vx| not above 0.25 on iOS and not above 0.25 / 1000000
\* on Android, and the mirrored offset different from the index
C5_SnapBack ==
  (/\ ev.op = "finish" /\ ev.moving = Some(TRUE)
   /\ lastOffset # Fx(ev.idx)
   /\ Abs(ev.s.dx) <= 120
   /\ Abs(ev.s.vx) <= (IF platform = "android" THEN 25 ELSE 25000000))
    => (ev.jump = Some(ev.idx) /\ index = ev.idx)

\* dx = -50, vx = 0.1 at index 0 on iOS, the velocity not a reversal
C5_Witness ==
  /\ ev.op = "finish" /\ ev.moving = Some(TRUE)
  /\ platform = "ios" /\ startDirection > 0 /\ routes >= 2
  /\ ev.idx = 0 /\ ev.s.dx = -50 /\ ev.s.vx = 10000000
  /\ ev.jump = Some(0)

\* C6: a gesture that ends while the mirrored offset equals the index does
\* not call jumpToIndex
C6_NoOpTap ==
  (ev.op = "finish" /\ lastOffset = Fx(ev.idx))
    => (ev.jump = Null /\ ~ev.ret /\ index = ev.idx)

\* a tap: granted, no move sample, released with dx = 0, dy = 0
C6_Witness ==
  /\ ev.op = "finish" /\ lastOffset = Fx(ev.idx)
  /\ ev.moving = Null /\ ev.s.dx = 0 /\ ev.s.dy = 0
  /\ ev.jump = Null

\* C7: _canMoveScreen returns false for every sample with |dx| <= 3 |dy| or
\* |vx| <= 3 |vy|
C7_AxisRejection ==
  (/\ ev.op = "claim"
   /\ \/ Abs(ev.s.dx) <= 3 * Abs(ev.s.dy)
      \/ Abs(ev.s.vx) <= 3 * Abs(ev.s.vy))
    => (~ev.ret /\ phase = "idle")

\* dx = 100, dy = 150, with a dominant horizontal velocity, swiping enabled
C7_Witness ==
  /\ ev.op = "claim" /\ swipeEnabled
  /\ ev.s.dx = 100 /\ ev.s.dy = 150
  /\ Abs(ev.s.vx) > 3 * Abs(ev.s.vy)
  /\ ~ev.ret

\* _transitionTo left the offset where it was, and no animation leads it away
OffsetKept ==
  /\ offset = ev.base[1]
  /\ anim # Null => anim[1] = offset

\* C8, as stated: _transitionTo(i, i) never changes the offset
C8_Original ==
  (ev.op = "settle" /\ ev.from = ev.to) => OffsetKept

\* C8, amended: _transitionTo(i, i) does not change an offset that equals i
C8_IdempotentSettle ==
  (ev.op = "settle" /\ ev.from = ev.to /\ ev.base = Some(Fx(ev.to)))
    => OffsetKept

\* settle(1, 1) at offset 1 with an animated transition
C8_Witness ==
  /\ ev.op = "settle" /\ ev.from = 1 /\ ev.to = 1
  /\ ev.base = Some(Fx(1))
  /\ configure = "spring" /\ anim = Some(Fx(1)) /\ offset = Fx(1)

\* no drag in progress, no animation running, no settle pending
AtRest == phase # "granted" /\ anim = Null /\ raf = << >>

C10_SwipeDisabled ==
  swipeEnabled = FALSE =>
    /\ phase = "idle"
    /\ ev.op \notin {"grant", "move", "finish"}
    /\ ev.op = "claim" => ~ev.ret
    /\ startDirection = 0 /\ lastValue = Null /\ isMoving = Null

\* a horizontal sample beyond the dead zone is refused
C10_Witness ==
  /\ swipeEnabled = FALSE
  /\ ev.op = "claim" /\ ev.s.dx = -50 /\ ev.s.vx = 30000000
  /\ ~ev.ret

\* the transition driver wrote offset in the last step: an animation frame,
\* the end of an animation, or a settle without a transition specification
DriverWrote ==
  \/ ev.op \in {"frame", "end"}
  \/ ev.op = "settle" /\ ~HasTransitionSpec(configure, ev.from, ev.to)

\* C11: from the grant of a gesture until its release or termination the
\* transition driver does not write offset
C11_SingleWriter ==
  phase = "granted" => ~DriverWrote

\* C12: when the props stop changing, the deferred settles run and the
\* animations end, after which offset equals navigationState.index for good
C12_StackedSettlesConverge ==
  <>[](ev.op # "props") => <>[](offset = Fx(index))

\* the second of two stacked settles runs: it was deferred when the index
\* left ev.from, and finds offset at the index the first one settled on
C12_Witness ==
  /\ ev.op = "settle" /\ ev.from # ev.to
  /\ ev.base = Some(Fx(ev.to))
  /\ raf = << >> /\ index = ev.to

\* C13: with navigationState.index a panel, every index a gesture end
\* passes to jumpToIndex is a panel
C13_JumpInRange ==
  (ev.op = "finish" /\ ev.idx \in 0..(routes - 1) /\ ev.jump # Null)
    => (ev.jump[1] \in 0..(routes - 1) /\ index = ev.jump[1])

\* a horizontal gesture released with dx = 0 and a velocity above the
\* threshold: the direction is NaN, and the committed index is requested
C13_Witness ==
  /\ ev.op = "finish" /\ ev.moving = Some(TRUE) /\ NotReversed
  /\ ev.s.dx = 0 /\ Abs(ev.s.vx) > DefaultSwipeVelocityThreshold
  /\ ev.jump = Some(ev.idx)

\* C14: the first move sample after a grant classifies the gesture by the
\* 3:1 test, every later move sample keeps that classification, nothing
\* but the gesture end clears it, and a move sample of a gesture classified
\* as not horizontal leaves offset alone
C14_ClassificationFixed ==
  [][/\ ev'.op = "grant" => (isMoving = Null /\ isMoving' = Null)
     /\ ev'.op = "move" =>
          /\ isMoving' = IF isMoving = Null
                           THEN Some(IsMovingHorzontally(ev'.s))
                           ELSE isMoving
          /\ isMoving' = Some(FALSE) => offset' = offset
     /\ ev'.op \notin {"move", "finish"} => isMoving' = isMoving]_vars

\* a horizontal sample in range arrives in a gesture whose first sample was
\* not horizontal: it is not written
C14_Witness ==
  /\ ev.op = "move" /\ ev.moving = Some(FALSE)
  /\ IsMovingHorzontally(ev.s)
  /\ IsIndexInRange(NextPosition(lastValue, index, ev.s, width), routes)
  /\ ~ev.ret /\ isMoving = Some(FALSE)

\* C15, as stated: with no gesture in progress _lastValue and _isMoving are
\* null, also when stopAnimation hands the halted value to its callback later
C15_Original ==
  phase # "granted" => (lastValue = Null /\ isMoving = Null)

\* C15, amended: every gesture end leaves _lastValue and _isMoving null,
\* _isMoving is null whenever no gesture is in progress, and with no gesture
\* in progress _lastValue is null unless a stopAnimation callback has run
\* since the last gesture end
C15_CleanReset ==
  [][/\ ev'.op = "finish" => (lastValue' = Null /\ isMoving' = Null)
     /\ phase' # "granted" => isMoving' = Null
     /\ (phase' # "granted" /\ lastValue' # Null)
          => (ev'.op = "halt" \/ (phase # "granted" /\ lastValue' = lastValue))
    ]_vars

\* a gesture that had captured a baseline and was classified ends without
\* requesting an index, and both fields are null
C15_Witness ==
  /\ ev.op = "finish" /\ ev.base # Null /\ ev.moving # Null
  /\ ev.jump = Null
  /\ lastValue = Null /\ isMoving = Null /\ phase = "idle"

\* C16: a move sample of a gesture classified horizontal whose candidate
\* baseline - dx / width lies within [0, routes.length - 1] sets offset to
\* the candidate; every other move sample leaves offset as it was.  With c
\* the candidate in position units, c * width = baseline * width - dx * Scale.
C16_DragWriteAndHold ==
  [][ev'.op = "move" =>
       LET baseline == IF lastValue # Null THEN lastValue[1] ELSE Fx(index)
           scaled == baseline * width - ev'.s.dx * Scale
           inRange == /\ width > 0
                      /\ scaled >= 0
                      /\ scaled <= Fx(routes - 1) * width
       IN  IF isMoving' = Some(TRUE) /\ inRange
             THEN offset' * width = scaled
             ELSE offset' = offset]_vars

\* after a write of half a panel, a horizontal sample whose candidate is
\* beyond the last panel leaves offset at the half panel, not at the boundary
C16_Witness ==
  /\ ev.op = "move" /\ ev.moving = Some(TRUE) /\ ~ev.ret
  /\ routes = 2 /\ width = 100 /\ lastValue = Some(0)
  /\ ev.s.dx = -150 /\ offset = 1

\* C17, as stated: no sample with |dx| <= 12 is claimed
C17_Original ==
  (ev.op = "claim" /\ Abs(ev.s.dx) <= 12) => ~ev.ret

\* C17, amended: no sample with |dx| < 12 is claimed, whatever its
\* velocity, and a sample with |dx| = 12 that passes the axis test is
\* claimed when swiping is enabled
C17_DeadZone ==
  /\ (ev.op = "claim" /\ Abs(ev.s.dx) < 12)
       => (~ev.ret /\ phase = "idle")
  /\ (ev.op = "claim" /\ Abs(ev.s.dx) = 12 /\ swipeEnabled
        /\ IsMovingHorzontally(ev.s))
       => (ev.ret /\ phase = "claimed" /\ startDirection = ev.s.dx)

\* dx = 11 or -11 with a horizontal velocity of 0.3, swiping enabled
C17_Witness ==
  /\ ev.op = "claim" /\ swipeEnabled
  /\ Abs(ev.s.dx) = 11 /\ IsMovingHorzontally(ev.s)
  /\ Abs(ev.s.vx) = 30000000
  /\ ~ev.ret

\* C18: a positive dx is claimed only if index - 1 is a panel and a negative
\* dx only if index + 1 is a panel
C18_Original ==
  (ev.op = "claim" /\ ev.ret) =>
    /\ ev.s.dx > 0 => ev.idx - 1 >= 0
    /\ ev.s.dx < 0 => ev.idx + 1 <= routes - 1

C20_SingleStepCommit ==
  [][ev'.op = "finish" =>
       /\ index' \in {index - 1, index, index + 1}
       /\ IF ev'.jump = Null
            THEN index' = index /\ raf' = raf
            ELSE /\ ev'.jump[1] \in {index - 1, index, index + 1}
                 /\ index' = ev'.jump[1]
                 /\ Len(raf') = Len(raf) + 1]_vars

\* from a baseline captured in mid-transition the offset was dragged two
\* panels away from the committed index 0; the release requests index 1
C20_Witness ==
  /\ ev.op = "finish" /\ ev.idx = 0 /\ routes = 3
  /\ ev.base = Some(1) /\ lastOffset = Fx(2)
  /\ ev.s.dx = -130
  /\ ev.jump = Some(1) /\ index = 1

====
